---- MODULE Spec2Model ----
(***************************************************************************)
(* Model of AnimateIris (trajectories/iris_in_configuration_space.ipynb):  *)
(* the random walk that visualizes an IRIS region.  The walk starts at the *)
(* region's Chebyshev center, and while the "Stop Animation" button has    *)
(* not been clicked it draws a direction, solves a linear program over the *)
(* region with that direction as cost, publishes 21 interpolated poses     *)
(* from the current point to the solution and moves there.                 *)
(*                                                                         *)
(* Configurations are points of a 2-D integer grid.  The interpolation     *)
(* parameter t and every published pose are kept in hundredths (Unit), so  *)
(* that t = 0, 0.05, ..., 1 and t*q_next + (1-t)*q are exact integers.     *)
(***************************************************************************)
EXTENDS Integers, Sequences, FiniteSets, TLC

VARIABLES
  region,               \* the region argument: [A, b] of A q <= b
  solver,               \* the solver Solve() and the library dispatch to
  running_as_notebook,  \* manipulation.running_as_notebook
  pc,                   \* position of AnimateIris
  q,                    \* q, the current configuration
  q_next,               \* q_next, the solution of the last program
  cost,                 \* coefficients of the linear cost of prog
  rng,                  \* state of the generator rng
  plant_q,              \* the plant's positions (in hundredths)
  button,               \* the "Stop Animation" button exists in Meshcat
  clicks,               \* its click count
  k,                    \* index of the next t of the for loop
  steps,                \* completed iterations of the while loop
  emitted,              \* poses published by the current iteration
  nPublished,           \* number of ForcedPublish calls so far
  turn,                 \* which of two successive calls is running
  phase,                \* progress of that call
  runs                  \* per call: seed, generator, q, steps, points visited

vars == <<region, solver, running_as_notebook, pc, q, q_next, cost, rng,
          plant_q, button, clicks, k, steps, emitted, nPublished,
          turn, phase, runs>>
walk == <<pc, q, q_next, cost, rng, button, clicks, k, steps, emitted,
          nPublished>>
pair == <<turn, phase, runs>>

\* ---------------------------------------------------------------- bounds
GridMax == 2
MaxSteps == 2
MaxClicks == 2

\* ------------------------------------------------------ program constants
\* np.arange(0, 1, .05) and the appended 1, in hundredths
Unit == 100
ArangeStep == 5
\* while meshcat.GetButtonClicks("Stop Animation") < 1
StopClicks == 1

\* ------------------------------------------------------------- geometry
Coord == (0 - GridMax)..GridMax
Points == Coord \X Coord

Dot(u, v) == u[1] * v[1] + u[2] * v[2]

Scaled(p) == <<Unit * p[1], Unit * p[2]>>

\* The regions handed to AnimateIris: H-polyhedra A q <= b.
Square == [name |-> "square",
           A |-> << <<1, 0>>, <<-1, 0>>, <<0, 1>>, <<0, -1>> >>,
           b |-> <<1, 1, 1, 1>>]
Diamond == [name |-> "diamond",
            A |-> << <<1, 1>>, <<1, -1>>, <<-1, 1>>, <<-1, -1>> >>,
            b |-> <<2, 2, 2, 2>>]
Rectangle == [name |-> "rectangle",
              A |-> << <<1, 0>>, <<-1, 0>>, <<0, 1>>, <<0, -1>> >>,
              b |-> <<2, 2, 1, 1>>]
Corner == [name |-> "corner",
           A |-> << <<1, 0>>, <<-1, 0>>, <<0, 1>>, <<0, -1>> >>,
           b |-> <<2, 0, 0, 2>>]
HalfStrip == [name |-> "halfstrip",
              A |-> << <<1, 0>>, <<0, 1>>, <<0, -1>> >>,
              b |-> <<1, 1, 1>>]
Regions == {Square, Diamond, Rectangle, Corner, HalfStrip}

\* region.PointInSet(p)
PointInSet(R, p) == \A i \in 1..Len(R.A) : Dot(R.A[i], p) <= R.b[i]

\* the same test for a pose kept in hundredths
PoseInSet(R, s) == \A i \in 1..Len(R.A) : Dot(R.A[i], s) <= Unit * R.b[i]

\* The region has no direction of recession.
Signs == (0 - 1)..1
Rays == (Signs \X Signs) \ {<<0, 0>>}
Recedes(A, r) == \A i \in 1..Len(A) : Dot(A[i], r) <= 0
Bounded(R) == \A r \in Rays : ~Recedes(R.A, r)

\* ------------------------------------------------------- random source
\* rng = np.random.default_rng(): seeded from fresh OS entropy.  The state
\* of a generator is the stream of directions it is still to produce.
Directions == {<<1, 0>>, <<-1, 0>>, <<0, 1>>, <<1, 1>>, <<-1, -2>>}
Seeds == [1..MaxSteps -> Directions]
\* rng.standard_normal(nq)
standard_normal(g) == Head(g)
Advance(g) == Tail(g)

\* ---------------------------------------------------------------- solver
\* The solver is a fixed deterministic program; which optimal point it
\* returns when the optimum is not unique is a property of the solver.
Solvers == {"lexmin", "lexmax"}
MinOf(S) == CHOOSE x \in S : \A y \in S : x <= y
MaxOf(S) == CHOOSE x \in S : \A y \in S : x >= y
Pick(s, S) ==
  IF s = "lexmin"
    THEN LET x == MinOf({p[1] : p \in S})
         IN <<x, MinOf({p[2] : p \in {o \in S : o[1] = x}})>>
    ELSE LET x == MaxOf({p[1] : p \in S})
         IN <<x, MaxOf({p[2] : p \in {o \in S : o[1] = x}})>>

\* Variant: the last row of A is lost.
ConstraintsDropLast(R) == [A |-> SubSeq(R.A, 1, Len(R.A) - 1),
                           b |-> SubSeq(R.b, 1, Len(R.b) - 1)]
\* prog.AddLinearConstraint(region.A(), -inf, region.b(), qvar)
AddLinearConstraint(R) == [A |-> R.A, b |-> R.b]

\* prog.AddLinearCost(np.ones((nq, 1)), qvar)
InitialCost == <<1, 1>>

\* Solve(prog): MathematicalProgram minimizes its cost c . q subject to
\* its constraints.  It fails on an infeasible or unbounded program.
Satisfies(C, p) == \A i \in 1..Len(C.A) : Dot(C.A[i], p) <= C.b[i]
FeasibleSet(C) == {p \in Points : Satisfies(C, p)}
Unbounded(C, c) == \E r \in Rays : Recedes(C.A, r) /\ Dot(c, r) < 0
Optimal(C, c) ==
  LET F == FeasibleSet(C)
      least == MinOf({Dot(c, p) : p \in F})
  IN {p \in F : Dot(c, p) = least}
SolveProgram(C, c, s) ==
  IF FeasibleSet(C) = {} \/ Unbounded(C, c)
    THEN [success |-> FALSE, solution |-> <<0, 0>>]
    ELSE [success |-> TRUE, solution |-> Pick(s, Optimal(C, c))]
\* the results of Solve, tabulated over the programs AnimateIris builds
SolveTable ==
  [C \in {AddLinearConstraint(R) : R \in Regions}, c \in Directions,
   s \in Solvers |-> SolveProgram(C, c, s)]
Solve(C, c, s) == SolveTable[C, c, s]

\* Variant: the assertion is compiled away.
AssertIgnored(result) == TRUE
\* assert result.is_success()
AssertPasses(result) == result.success

\* region.ChebyshevCenter(): the center of a largest inscribed ball.  All
\* rows of a region of Regions have the same norm, so the center maximizes
\* the least slack b_i - a_i . p; the library's solver picks among ties.
Slack(R, p) == MinOf({R.b[i] - Dot(R.A[i], p) : i \in 1..Len(R.A)})
ChebyshevCenters(R) ==
  LET F == {p \in Points : PointInSet(R, p)}
      radius == MaxOf({Slack(R, p) : p \in F})
  IN {p \in F : Slack(R, p) = radius}
\* Variant: start from wherever the plant currently is.
StalePlantPose(R, s) == <<plant_q[1] \div Unit, plant_q[2] \div Unit>>
ChebyshevCenter(R, s) == Pick(s, ChebyshevCenters(R))

\* --------------------------------------------------------- interpolation
CeilDiv(a, b) == (a + b - 1) \div b
\* Variant: stop included.
ArangeInclusive(start, stop, step) ==
  [i \in 1..((stop - start) \div step + 1) |-> start + (i - 1) * step]
\* np.arange(start, stop, step): stop excluded
Arange(start, stop, step) ==
  [i \in 1..CeilDiv(stop - start, step) |-> start + (i - 1) * step]
\* np.append(np.arange(0, 1, .05), 1)
Ts == Append(Arange(0, Unit, ArangeStep), Unit)

\* qs = t * q_next + (1 - t) * q, in hundredths
Waypoint(t, qn, qc) ==
  <<t * qn[1] + (Unit - t) * qc[1], t * qn[2] + (Unit - t) * qc[2]>>

\* Variant: one click too many is needed.
LoopConditionLate(c) == c <= StopClicks
\* while meshcat.GetButtonClicks("Stop Animation") < 1
LoopCondition(c) == c < StopClicks

\* Variant: q is not advanced.
KeepOld(qc, qn) == qc
\* q = q_next
NextQ(qc, qn) == qn

\* ------------------------------------------------------------ AnimateIris
NoRun == [seed |-> <<>>, rng |-> <<>>, q |-> <<0, 0>>, steps |-> 0,
          path |-> <<>>]

Inputs ==
  /\ region \in Regions
  /\ solver \in Solvers
  /\ running_as_notebook \in BOOLEAN
  \* the plant's default positions
  /\ plant_q = <<0, 0>>

Init ==
  /\ Inputs
  /\ pc = "setup"
  /\ q = <<0, 0>>
  /\ q_next = <<0, 0>>
  /\ cost = InitialCost
  /\ rng = <<>>
  /\ button = FALSE
  /\ clicks = 0
  /\ k = 1
  /\ steps = 0
  /\ emitted = <<>>
  /\ nPublished = 0
  /\ turn = 1
  /\ phase = "idle"
  /\ runs = [r \in 1..2 |-> NoRun]

\* q = region.ChebyshevCenter() ... cost = prog.AddLinearCost(...)
Setup ==
  /\ pc = "setup"
  /\ q' = ChebyshevCenter(region, solver)
  /\ plant_q' = Scaled(q')
  /\ nPublished' = nPublished + 1
  /\ button' = TRUE
  /\ clicks' = 0
  /\ \E s \in Seeds : rng' = s
  /\ cost' = InitialCost
  /\ pc' = "looptest"
  /\ UNCHANGED <<region, solver, running_as_notebook, q_next, k, steps,
                 emitted, pair>>

\* The user presses "Stop Animation" in the browser, at any moment.
Click ==
  /\ button
  /\ clicks < MaxClicks
  /\ clicks' = clicks + 1
  /\ UNCHANGED <<region, solver, running_as_notebook, pc, q, q_next, cost,
                 rng, plant_q, button, k, steps, emitted, nPublished, pair>>

\* while meshcat.GetButtonClicks("Stop Animation") < 1:
LoopTest ==
  /\ pc = "looptest"
  /\ IF LoopCondition(clicks)
       THEN steps < MaxSteps /\ pc' = "sample"
       ELSE pc' = "cleanup"
  /\ UNCHANGED <<region, solver, running_as_notebook, q, q_next, cost, rng,
                 plant_q, button, clicks, k, steps, emitted, nPublished,
                 pair>>

\* direction = rng.standard_normal(nq); UpdateCoefficients(direction)
Sample ==
  /\ pc = "sample"
  /\ cost' = standard_normal(rng)
  /\ rng' = Advance(rng)
  /\ emitted' = <<>>
  /\ pc' = "solve"
  /\ UNCHANGED <<region, solver, running_as_notebook, q, q_next, plant_q,
                 button, clicks, k, steps, nPublished, pair>>

\* result = Solve(prog); assert result.is_success(); q_next = ...
SolveStep ==
  /\ pc = "solve"
  /\ \E result \in {Solve(AddLinearConstraint(region), cost, solver)} :
        IF AssertPasses(result)
          THEN /\ q_next' = result.solution
               /\ k' = 1
               /\ pc' = "animate"
          ELSE /\ pc' = "raised"
               /\ UNCHANGED <<q_next, k>>
  /\ UNCHANGED <<region, solver, running_as_notebook, q, cost, rng, plant_q,
                 button, clicks, steps, emitted, nPublished, pair>>

\* one pass of: for t in np.append(np.arange(0, 1, .05), 1): ...
Publish ==
  /\ pc = "animate"
  /\ LET qs == Waypoint(Ts[k], q_next, q)
     IN /\ plant_q' = qs
        /\ emitted' = Append(emitted, [t |-> Ts[k], qs |-> qs])
  /\ nPublished' = nPublished + 1
  /\ IF k = Len(Ts)
       THEN pc' = "endstep" /\ k' = k
       ELSE pc' = "animate" /\ k' = k + 1
  /\ UNCHANGED <<region, solver, running_as_notebook, q, q_next, cost, rng,
                 button, clicks, steps, pair>>

\* q = q_next; if not running_as_notebook: break
EndStep ==
  /\ pc = "endstep"
  /\ q' = NextQ(q, q_next)
  /\ steps' = steps + 1
  /\ pc' = IF ~running_as_notebook THEN "cleanup" ELSE "looptest"
  /\ UNCHANGED <<region, solver, running_as_notebook, q_next, cost, rng,
                 plant_q, button, clicks, k, emitted, nPublished, pair>>

\* meshcat.DeleteButton("Stop Animation")
DeleteButton ==
  /\ pc = "cleanup"
  /\ button' = FALSE
  /\ pc' = "returned"
  /\ UNCHANGED <<region, solver, running_as_notebook, q, q_next, cost, rng,
                 plant_q, clicks, k, steps, emitted, nPublished, pair>>

Next ==
  \/ Setup
  \/ Click
  \/ LoopTest
  \/ Sample
  \/ SolveStep
  \/ Publish
  \/ EndStep
  \/ DeleteButton

Spec == Init /\ [][Next]_vars

\* ------------------------------------------- two successive calls
\* AnimateIris called twice on the same plant, region and solver, each
\* call taken an iteration at a time.  A call records its seed and the
\* points it has visited; the poses it has published follow from them.
PosesOf(path) ==
  LET StepPoses(n) == [i \in 1..Len(Ts) |-> Waypoint(Ts[i], path[n + 1], path[n])]
      Upto[n \in 0..(Len(path) - 1)] ==
        IF n = 0 THEN <<Scaled(path[1])>> ELSE Upto[n - 1] \o StepPoses(n)
  IN Upto[Len(path) - 1]

CallSetup ==
  /\ phase = "idle"
  /\ \E c \in {ChebyshevCenter(region, solver)} : \E s \in Seeds :
       /\ runs' = [runs EXCEPT ![turn] =
                     [seed |-> s, rng |-> s, q |-> c, steps |-> 0,
                      path |-> <<c>>]]
       /\ plant_q' = Scaled(c)
  /\ phase' = "running"
  /\ UNCHANGED <<region, solver, running_as_notebook, walk, turn>>

CallStep ==
  /\ phase = "running"
  /\ runs[turn].steps < MaxSteps
  /\ running_as_notebook \/ runs[turn].steps = 0
  /\ \E result \in {Solve(AddLinearConstraint(region),
                          standard_normal(runs[turn].rng), solver)} :
       LET r == runs[turn]
       IN /\ AssertPasses(result)
          /\ runs' = [runs EXCEPT ![turn] =
                        [seed |-> r.seed, rng |-> Advance(r.rng),
                         q |-> NextQ(r.q, result.solution),
                         steps |-> r.steps + 1,
                         path |-> Append(r.path, result.solution)]]
          /\ plant_q' = Waypoint(Ts[Len(Ts)], result.solution, r.q)
  /\ UNCHANGED <<region, solver, running_as_notebook, walk, turn, phase>>

\* the call ends: stop clicked, the break, or the assertion
CallEnd ==
  /\ phase = "running"
  /\ IF turn = 1
       THEN turn' = 2 /\ phase' = "idle"
       ELSE turn' = turn /\ phase' = "done"
  /\ UNCHANGED <<region, solver, running_as_notebook, walk, plant_q, runs>>

PairNext ==
  \/ CallSetup
  \/ CallStep
  \/ CallEnd

PairSpec == Init /\ [][PairNext]_vars

\* ---------------------------------------------------------------- claims

\* C1: the current point, every target and every published pose satisfy
\* A q <= b, after any number of steps with any directions.
C1_StaysInRegion ==
  pc # "setup" =>
    /\ PointInSet(region, q)
    /\ PoseInSet(region, plant_q)
    /\ (steps > 0 \/ pc \in {"animate", "endstep"}) => PointInSet(region, q_next)
    /\ \A i \in 1..Len(emitted) : PoseInSet(region, emitted[i].qs)
C1_Witness ==
  /\ pc = "endstep" /\ steps = 1 /\ Bounded(region)
  /\ q_next # q /\ Len(emitted) = Len(Ts)

\* C2: a step publishes exactly 21 poses, for t = 0, 0.05, ..., 0.95, 1 in
\* this order: the first is q, the last is q_next, t = 1 occurs once, and
\* each pose is t*q_next + (1-t)*q.
C2_Interpolation ==
  /\ pc = "animate" => Len(emitted) = k - 1 /\ Len(emitted) < 21
  /\ pc = "endstep" =>
       /\ Len(emitted) = 21
       /\ \A i \in 1..Len(emitted) : emitted[i].t = 5 * (i - 1)
       /\ \A i \in 1..(Len(emitted) - 1) : emitted[i].t < emitted[i + 1].t
       /\ Cardinality({i \in 1..Len(emitted) : emitted[i].t = 100}) = 1
       /\ emitted[1].qs = <<100 * q[1], 100 * q[2]>>
       /\ emitted[Len(emitted)].qs = <<100 * q_next[1], 100 * q_next[2]>>
       /\ \A i \in 1..Len(emitted) : \A j \in 1..2 :
            emitted[i].qs[j] =
              emitted[i].t * q_next[j] + (100 - emitted[i].t) * q[j]
C2_Witness == pc = "endstep" /\ q_next # q /\ steps = 1

\* C3 as stated: the loop ends without an error only because the click
\* count was at least 1 at a loop test.
C3_OnlyStopEndsLoop ==
  [][pc' = "cleanup" /\ pc # "cleanup" => pc = "looptest" /\ clicks >= 1]_vars
\* C3 as amended: the loop goes on while the click count is below 1 at the
\* loop test, and ends without an error only by a click count of at least
\* 1 at a loop test or, outside notebook mode, by the break after the
\* first step.
C3_LoopEnds ==
  [][/\ pc = "looptest" /\ clicks < 1 => pc' \in {"looptest", "sample"}
     /\ pc = "looptest" /\ clicks >= 1 => pc' \in {"looptest", "cleanup"}
     /\ pc = "endstep" /\ running_as_notebook => pc' \in {"endstep", "looptest"}
     /\ pc' = "cleanup" /\ pc # "cleanup" =>
          \/ pc = "looptest" /\ clicks >= 1
          \/ pc = "endstep" /\ ~running_as_notebook /\ steps = 0 /\ steps' = 1
    ]_vars
C3_Witness ==
  pc = "cleanup" /\ ~running_as_notebook /\ clicks = 0 /\ steps = 1

\* C4: with the click count already at least 1 at the first loop test,
\* the loop makes no step and publishes no pose (the only pose published
\* is the center's, before the button exists) and the call returns.
C4_StopAtEntry ==
  /\ [][pc = "looptest" /\ steps = 0 /\ clicks >= 1 =>
          /\ pc' \in {"looptest", "cleanup"}
          /\ UNCHANGED <<q, plant_q, nPublished, emitted, steps>>]_vars
  /\ [](pc \in {"cleanup", "returned"} /\ steps = 0 =>
          /\ clicks >= 1
          /\ nPublished = 1
          /\ emitted = <<>>
          /\ plant_q = Scaled(q))
C4_Witness ==
  pc = "returned" /\ steps = 0 /\ clicks >= 1 /\ nPublished = 1 /\ ~button

\* C5: when the solver reports no success the step raises at once: no pose
\* of the step is published, q keeps its value, and nothing is solved or
\* published afterwards.
C5_FailureRaises ==
  /\ [][pc = "solve" /\ pc' # "solve"
          /\ ~Solve([A |-> region.A, b |-> region.b], cost, solver).success =>
          /\ pc' = "raised"
          /\ UNCHANGED <<q, plant_q, nPublished, steps>>
          /\ emitted' = <<>>]_vars
  /\ [][pc = "raised" =>
          /\ pc' = "raised"
          /\ UNCHANGED <<q, q_next, cost, rng, plant_q, steps, emitted,
                         nPublished>>]_vars
  /\ [](pc = "raised" => emitted = <<>> /\ plant_q = Scaled(q))
C5_Witness == pc = "raised" /\ steps = 1 /\ nPublished = 1 + Len(Ts)

\* C7: the target of a step is the point where the ray from the current
\* point along the sampled direction leaves the region; on the square
\* -1 <= q1, q2 <= 1, from (0,0) along (1,0), it is (1,0).
IsRayExit(R, p, d, x) ==
  /\ PointInSet(R, x)
  /\ (x[1] - p[1]) * d[2] = (x[2] - p[2]) * d[1]
  /\ Dot(<<x[1] - p[1], x[2] - p[2]>>, d) >= 0
  /\ \E i \in 1..Len(R.A) : Dot(R.A[i], x) = R.b[i] /\ Dot(R.A[i], d) > 0
C7_TargetIsRayExit ==
  pc = "animate" =>
    /\ IsRayExit(region, q, cost, q_next)
    /\ (region = Square /\ q = <<0, 0>> /\ cost = <<1, 0>>) => q_next = <<1, 0>>

\* C9: a step whose solve succeeded publishes all 21 poses and moves q to
\* the target whatever the click count does meanwhile; the first pose of a
\* step is the pose published last before it, the center's for the first
\* step.
C9_StepCompletes ==
  /\ [][pc = "animate" => pc' \in {"animate", "endstep"}]_vars
  /\ [][pc = "animate" /\ nPublished' = nPublished => UNCHANGED <<k, emitted>>]_vars
  /\ [](pc = "endstep" => Len(emitted) = 21)
  /\ [][pc = "endstep" /\ pc' # "endstep" =>
          q' = q_next /\ steps' = steps + 1]_vars
  /\ [][pc = "animate" /\ k = 1 /\ nPublished' # nPublished =>
          plant_q' = plant_q]_vars
  /\ [](pc \in {"looptest", "sample", "solve"} => plant_q = Scaled(q))
  /\ [](steps = 0 /\ pc = "animate" /\ k = 2 =>
          emitted[1].qs = Scaled(Pick(solver, ChebyshevCenters(region))))
C9_Witness ==
  /\ pc = "endstep" /\ running_as_notebook /\ clicks >= 1 /\ steps = 1
  /\ plant_q = Scaled(q_next) /\ q_next # q /\ Len(emitted) = 21

\* C10: however AnimateIris ends once the button is added, the button has
\* been deleted.
C10_ButtonDeleted == pc \in {"returned", "raised"} => ~button

\* C8 as stated: the seed of the generator is fixed by the caller, so two
\* calls with the same arguments that make the same number of steps
\* publish the same poses.
C8_ArgumentsFixPoses ==
  (turn = 2 /\ phase # "idle") =>
    /\ runs[1].seed = runs[2].seed
    /\ runs[1].steps = runs[2].steps =>
         PosesOf(runs[1].path) = PosesOf(runs[2].path)
\* C8 as amended: the generator is seeded inside the call from fresh
\* entropy; two calls whose generators start from the same seed and that
\* make the same number of steps publish the same poses.
C8_SameSeedSamePoses ==
  (turn = 2 /\ phase # "idle" /\ runs[1].seed = runs[2].seed
     /\ runs[1].steps = runs[2].steps) =>
    PosesOf(runs[1].path) = PosesOf(runs[2].path)
C8_Witness ==
  /\ turn = 2 /\ phase = "done" /\ runs[1].seed = runs[2].seed
  /\ runs[1].steps = 2 /\ runs[2].steps = 2
  /\ runs[2].q # Pick(solver, ChebyshevCenters(region))

====
